---- MODULE Spec2Model ----
(***************************************************************************)
(* A model of caseshot/Renderer: the geometry-to-pixel pipeline of         *)
(* src/src/pipeline.cpp (homogeneous clipping, fan triangulation,          *)
(* rasterization with a Z-buffer, framebuffer writes) and the PNG decoder  *)
(* of src/src/png_image.cc (chunk loop, unfilter).                         *)
(*                                                                         *)
(* Floating-point values are modelled in exact arithmetic: a number is a   *)
(* reduced fraction <<n, d>> with d > 0.                                   *)
(***************************************************************************)
EXTENDS Integers, Sequences, FiniteSets, TLC

(***************************************************************************)
(* Exact arithmetic on fractions <<n, d>>, d > 0, gcd(n, d) = 1.           *)
(***************************************************************************)
Abs(a) == IF a < 0 THEN -a ELSE a

RECURSIVE Gcd(_, _)
Gcd(a, b) == IF b = 0 THEN a ELSE Gcd(b, a % b)

\* n / d with d > 0 and g = gcd(|n|, d)
RReduce(n, d, g) == <<n \div g, d \div g>>

\* n / d with d > 0
RNorm(n, d) == RReduce(n, d, Gcd(Abs(n), d))

R(n) == <<n, 1>>

RNeg(a) == <<-a[1], a[2]>>

RAddG(a, b, g) ==
    RNorm(a[1] * (b[2] \div g) + b[1] * (a[2] \div g), (a[2] \div g) * b[2])

RAdd(a, b) == RAddG(a, b, Gcd(a[2], b[2]))

RSub(a, b) == RAdd(a, RNeg(b))

RMulG(a, b, g1, g2) ==
    <<(a[1] \div g1) * (b[1] \div g2), (a[2] \div g2) * (b[2] \div g1)>>

RMul(a, b) == RMulG(a, b, Gcd(Abs(a[1]), b[2]), Gcd(Abs(b[1]), a[2]))

\* a / b for b # 0
RDiv(a, b) ==
    RMul(a, IF b[1] < 0 THEN <<-b[2], -b[1]>> ELSE <<b[2], b[1]>>)

RLeG(a, b, g) == a[1] * (b[2] \div g) <= b[1] * (a[2] \div g)

RLe(a, b) == RLeG(a, b, Gcd(a[2], b[2]))

RLt(a, b) == ~RLe(b, a)

RMin(a, b) == IF RLe(a, b) THEN a ELSE b

\* std::ceil
RCeil(a) == -((-a[1]) \div a[2])

\* the conversion (int) x: truncation towards zero
RTrunc(a) == IF a[1] >= 0 THEN a[1] \div a[2] ELSE -((-a[1]) \div a[2])

MaxInt(a, b) == IF a >= b THEN a ELSE b

MinInt(a, b) == IF a <= b THEN a ELSE b

(***************************************************************************)
(* Vectors and the clip planes.                                            *)
(***************************************************************************)
\* lerp(a, b, t) = a + t (b - a), componentwise
vectorInterpolate(a, b, t) ==
    [c \in DOMAIN a |-> RAdd(a[c], RMul(t, RSub(b[c], a[c])))]

\* enum Plane, in the order homogeneous_clip applies the planes
MINIMAL == 0
RIGHT == 1
LEFT == 2
TOP == 3
BOTTOM == 4
NEAR == 5
FAR == 6

\* epsilon of the MINIMAL plane, 1e-5
MINIMAL_VAL == <<1, 100000>>

X(v) == v[1]
Y(v) == v[2]
Z(v) == v[3]
W(v) == v[4]

\* mutant: the LEFT test dropped
is_inside_plane_no_left(clip_plane, vertex) ==
    CASE clip_plane = MINIMAL -> RLe(W(vertex), RNeg(MINIMAL_VAL))
      [] clip_plane = RIGHT   -> RLe(W(vertex), X(vertex))
      [] clip_plane = LEFT    -> TRUE
      [] clip_plane = TOP     -> RLe(W(vertex), Y(vertex))
      [] clip_plane = BOTTOM  -> RLe(Y(vertex), RNeg(W(vertex)))
      [] clip_plane = NEAR    -> RLe(W(vertex), Z(vertex))
      [] clip_plane = FAR     -> RLe(Z(vertex), RNeg(W(vertex)))
      [] OTHER                -> FALSE

\* mutant: the MINIMAL test for a camera looking towards positive w
is_inside_plane_w_positive(clip_plane, vertex) ==
    CASE clip_plane = MINIMAL -> RLe(MINIMAL_VAL, W(vertex))
      [] clip_plane = RIGHT   -> RLe(W(vertex), X(vertex))
      [] clip_plane = LEFT    -> RLe(X(vertex), RNeg(W(vertex)))
      [] clip_plane = TOP     -> RLe(W(vertex), Y(vertex))
      [] clip_plane = BOTTOM  -> RLe(Y(vertex), RNeg(W(vertex)))
      [] clip_plane = NEAR    -> RLe(W(vertex), Z(vertex))
      [] clip_plane = FAR     -> RLe(Z(vertex), RNeg(W(vertex)))
      [] OTHER                -> FALSE

is_inside_plane(clip_plane, vertex) ==
    CASE clip_plane = MINIMAL -> RLe(W(vertex), RNeg(MINIMAL_VAL))
      [] clip_plane = RIGHT   -> RLe(W(vertex), X(vertex))
      [] clip_plane = LEFT    -> RLe(X(vertex), RNeg(W(vertex)))
      [] clip_plane = TOP     -> RLe(W(vertex), Y(vertex))
      [] clip_plane = BOTTOM  -> RLe(Y(vertex), RNeg(W(vertex)))
      [] clip_plane = NEAR    -> RLe(W(vertex), Z(vertex))
      [] clip_plane = FAR     -> RLe(Z(vertex), RNeg(W(vertex)))
      [] OTHER                -> FALSE

\* mutant: the ratio measured from the current vertex
get_intersect_ratio_from_cur(prev, curv, clip_plane) ==
    LET pm(c) == RSub(W(prev), prev[c])
        cm(c) == RSub(W(curv), curv[c])
        pp(c) == RAdd(W(prev), prev[c])
        cp(c) == RAdd(W(curv), curv[c])
    IN  CASE clip_plane = MINIMAL ->
               RDiv(RAdd(W(curv), MINIMAL_VAL), RSub(W(curv), W(prev)))
          [] clip_plane = RIGHT   -> RDiv(cm(1), RSub(cm(1), pm(1)))
          [] clip_plane = LEFT    -> RDiv(cp(1), RSub(cp(1), pp(1)))
          [] clip_plane = TOP     -> RDiv(cm(2), RSub(cm(2), pm(2)))
          [] clip_plane = BOTTOM  -> RDiv(cp(2), RSub(cp(2), pp(2)))
          [] clip_plane = NEAR    -> RDiv(cm(3), RSub(cm(3), pm(3)))
          [] clip_plane = FAR     -> RDiv(cp(3), RSub(cp(3), pp(3)))
          [] OTHER                -> R(0)

\* called only for an edge whose ends differ in inside-ness, so the
\* denominator is never zero
get_intersect_ratio(prev, curv, clip_plane) ==
    LET pm(c) == RSub(W(prev), prev[c])
        cm(c) == RSub(W(curv), curv[c])
        pp(c) == RAdd(W(prev), prev[c])
        cp(c) == RAdd(W(curv), curv[c])
    IN  CASE clip_plane = MINIMAL ->
               RDiv(RAdd(W(prev), MINIMAL_VAL), RSub(W(prev), W(curv)))
          [] clip_plane = RIGHT   -> RDiv(pm(1), RSub(pm(1), cm(1)))
          [] clip_plane = LEFT    -> RDiv(pp(1), RSub(pp(1), cp(1)))
          [] clip_plane = TOP     -> RDiv(pm(2), RSub(pm(2), cm(2)))
          [] clip_plane = BOTTOM  -> RDiv(pp(2), RSub(pp(2), cp(2)))
          [] clip_plane = NEAR    -> RDiv(pm(3), RSub(pm(3), cm(3)))
          [] clip_plane = FAR     -> RDiv(pp(3), RSub(pp(3), cp(3)))
          [] OTHER                -> R(0)

(***************************************************************************)
(* The payload: two sides (a, b) of four parallel attribute arrays.  A     *)
(* side is modelled as the sequence of its first num entries, one record   *)
(* per index holding the four streams; index i of the code is i + 1 here.  *)
(* Entries at indices >= num are never read by the code.                   *)
(***************************************************************************)
PAYLOAD_CAPACITY == 10

\* the four streams of a new vertex, interpolated with the same ratio
LerpVertex(v1, v2, ratio) ==
    [coords       |-> vectorInterpolate(v1.coords, v2.coords, ratio),
     world_coords |-> vectorInterpolate(v1.world_coords, v2.world_coords, ratio),
     normals      |-> vectorInterpolate(v1.normals, v2.normals, ratio),
     uvs          |-> vectorInterpolate(v1.uvs, v2.uvs, ratio)]

\* mutant: the current vertex appended whether inside or not
ClipAppendAlways(clip_plane, v1, v2, v1_inside, v2_inside, out) ==
    IF v1_inside # v2_inside
    THEN Append(Append(out, LerpVertex(v1, v2,
             get_intersect_ratio(v1.coords, v2.coords, clip_plane))), v2)
    ELSE IF v2_inside THEN Append(out, v2) ELSE out

\* the two appends of one loop iteration, given the inside tests
ClipAppend(clip_plane, v1, v2, v1_inside, v2_inside, out) ==
    IF v1_inside # v2_inside
    THEN IF v2_inside
         THEN Append(Append(out, LerpVertex(v1, v2,
                  get_intersect_ratio(v1.coords, v2.coords, clip_plane))), v2)
         ELSE Append(out, LerpVertex(v1, v2,
                  get_intersect_ratio(v1.coords, v2.coords, clip_plane)))
    ELSE IF v2_inside THEN Append(out, v2) ELSE out

\* one iteration of the loop of clipWithPlane: the edge (i, (i+1) % vertex_num)
ClipEdge(clip_plane, vertex_num, in, out, i) ==
    ClipAppend(clip_plane, in[i + 1], in[((i + 1) % vertex_num) + 1],
               is_inside_plane(clip_plane, in[i + 1].coords),
               is_inside_plane(clip_plane, in[((i + 1) % vertex_num) + 1].coords),
               out)

RECURSIVE ClipLoop(_, _, _, _, _)
ClipLoop(clip_plane, vertex_num, in, out, i) ==
    IF i < vertex_num
    THEN ClipLoop(clip_plane, vertex_num, in,
                  ClipEdge(clip_plane, vertex_num, in, out, i), i + 1)
    ELSE out

\* the payload after clipWithPlane; the returned num is the length of the
\* side written
clipWithPlane(clip_plane, vertex_num, payload) ==
    LET is_odd == (clip_plane % 2) # 0
    IN  IF ~is_odd
        THEN [payload EXCEPT !.b = ClipLoop(clip_plane, vertex_num, payload.a, <<>>, 0)]
        ELSE [payload EXCEPT !.a = ClipLoop(clip_plane, vertex_num, payload.b, <<>>, 0)]

clipOut(clip_plane, payload) ==
    IF (clip_plane % 2) # 0 THEN payload.a ELSE payload.b

(***************************************************************************)
(* The rasterizer.                                                         *)
(***************************************************************************)
\* the pipeline is constructed as Pipeline(Width, Height)
Width == 4
Height == 3

\* the value the caller pre-fills the depth buffer with: larger than every
\* scene depth
DepthSentinel == <<1000000, 1>>

\* screen_pos[i] of rasterize
ScreenPos(h) ==
    <<RMul(RMul(<<1, 2>>, R(Width - 1)), RAdd(RDiv(X(h), W(h)), R(1))),
      RMul(RMul(<<1, 2>>, R(Height - 1)), RAdd(RDiv(Y(h), W(h)), R(1))),
      RNeg(W(h))>>

\* the bounding box <<x_min, x_max, y_min, y_max>> of rasterize
BoundingBox(screen_pos) ==
    LET cx(i) == RCeil(X(screen_pos[i]))
        tx(i) == RTrunc(X(screen_pos[i]))
        cy(i) == RCeil(Y(screen_pos[i]))
        ty(i) == RTrunc(Y(screen_pos[i]))
    IN  <<MinInt(MinInt(MinInt(Width, tx(1)), tx(2)), tx(3)),
          MaxInt(MaxInt(MaxInt(0, cx(1)), cx(2)), cx(3)),
          MinInt(MinInt(MinInt(Height, ty(1)), ty(2)), ty(3)),
          MaxInt(MaxInt(MaxInt(0, cy(1)), cy(2)), cy(3))>>

\* <<alpha, beta, gamma>> from alpha and beta
Weights(alpha, beta) == <<TRUE, alpha, beta, RSub(RSub(R(1), alpha), beta)>>

\* The two quotients of computeBarycentricCoords2D.  A zero denominator (a
\* triangle of zero area on screen) gives infinities or NaN in floating
\* point, which never pass inside_triangle: alpha > 0 and beta > 0 force
\* both to +inf, and then gamma = 1 - inf - inf < 0.  The model reports such
\* weights as undefined.
Quotients(an, ad, bn, bd) ==
    IF ad[1] = 0 \/ bd[1] = 0
    THEN <<FALSE, R(0), R(0), R(0)>>
    ELSE Weights(RDiv(an, ad), RDiv(bn, bd))

\* <<defined, alpha, beta, gamma>>
computeBarycentricCoords2D(x, y, v) ==
    Quotients(
      RAdd(RAdd(RMul(x, RSub(Y(v[2]), Y(v[3]))), RMul(RSub(X(v[3]), X(v[2])), y)),
           RSub(RMul(X(v[2]), Y(v[3])), RMul(X(v[3]), Y(v[2])))),
      RAdd(RAdd(RMul(X(v[1]), RSub(Y(v[2]), Y(v[3]))), RMul(RSub(X(v[3]), X(v[2])), Y(v[1]))),
           RSub(RMul(X(v[2]), Y(v[3])), RMul(X(v[3]), Y(v[2])))),
      RAdd(RAdd(RMul(x, RSub(Y(v[3]), Y(v[1]))), RMul(RSub(X(v[1]), X(v[3])), y)),
           RSub(RMul(X(v[3]), Y(v[1])), RMul(X(v[1]), Y(v[3])))),
      RAdd(RAdd(RMul(X(v[2]), RSub(Y(v[3]), Y(v[1]))), RMul(RSub(X(v[1]), X(v[3])), Y(v[2]))),
           RSub(RMul(X(v[3]), Y(v[1])), RMul(X(v[1]), Y(v[3])))))

inside_triangle(alpha, beta, gamma) ==
    RLt(R(0), alpha) /\ RLt(R(0), beta) /\ RLt(R(0), gamma)

\* the clamp of rasterize and the store of a float into a framebuffer byte
ClampColor(c) == IF RLt(c, R(0)) THEN R(0) ELSE IF RLt(R(255), c) THEN R(255) ELSE c

ToByte(c) == RTrunc(c) % 256

\* mutant: the row not flipped
setColorNoFlip(fb, x, y, color) ==
    [k \in DOMAIN fb |->
        IF k = (y * Width + x) * 4 + 2 THEN ToByte(color[1])
        ELSE IF k = (y * Width + x) * 4 + 1 THEN ToByte(color[2])
        ELSE IF k = (y * Width + x) * 4 THEN ToByte(color[3])
        ELSE fb[k]]

\* Pipeline::setColor on framebuffer fb
setColor(fb, x, y, color) ==
    [k \in DOMAIN fb |->
        IF k = ((Height - y - 1) * Width + x) * 4 + 2 THEN ToByte(color[1])
        ELSE IF k = ((Height - y - 1) * Width + x) * 4 + 1 THEN ToByte(color[2])
        ELSE IF k = ((Height - y - 1) * Width + x) * 4 THEN ToByte(color[3])
        ELSE fb[k]]

\* the pixels of the two nested loops of rasterize, in loop order
PixelAt(box, nx, k) == <<box[1] + ((k - 1) % nx), box[3] + ((k - 1) \div nx)>>

BoxSize(box) ==
    IF box[2] < box[1] \/ box[4] < box[3] THEN 0
    ELSE (box[2] - box[1] + 1) * (box[4] - box[3] + 1)

\* corrector = 1 / (alpha / w0 + beta / w1 + gamma / w2)
Corrector(bc, homo_coords) ==
    RDiv(R(1), RAdd(RAdd(RDiv(bc[2], W(homo_coords[1])),
                         RDiv(bc[3], W(homo_coords[2]))),
                    RDiv(bc[4], W(homo_coords[3]))))

\* <<covered, z>> from the weights, z = -corrector
FragmentOf(bc, homo_coords) ==
    IF bc[1] /\ inside_triangle(bc[2], bc[3], bc[4])
    THEN <<TRUE, RNeg(Corrector(bc, homo_coords))>>
    ELSE <<FALSE, R(0)>>

\* the fragment of pixel p, sampled at the pixel centre
Fragment(p, homo_coords, screen_pos) ==
    FragmentOf(computeBarycentricCoords2D(RAdd(R(p[1]), <<1, 2>>),
                                          RAdd(R(p[2]), <<1, 2>>), screen_pos),
               homo_coords)

\* mutant: the comparison reversed
ZTestReversed(stored, z) == RLt(stored, z)

\* the depth test of rasterize: zbuffer[index] > z
ZTest(stored, z) == RLt(z, stored)

\* The body of the pixel loop for a pixel p whose fragment f passed the
\* coverage test, on bufs = [z, fb, frag, touched].  frag is the history of
\* the least depth of the fragments that passed the coverage test, per depth
\* index; touched is the history of the pixels at which the depth buffer was
\* read.  An index outside the buffer is an out-of-bounds access in the
\* code: the model leaves the buffers alone there and only records the
\* pixel.
CoveredPixel(bufs, p, index, z, color) ==
    IF index \notin DOMAIN bufs.z
    THEN [bufs EXCEPT !.touched = @ \cup {p}]
    ELSE IF ZTest(bufs.z[index], z)
    THEN [z       |-> [bufs.z EXCEPT ![index] = z],
          fb      |-> setColor(bufs.fb, p[1], p[2],
                               [c \in 1..3 |-> ClampColor(color[c])]),
          frag    |-> [bufs.frag EXCEPT ![index] = RMin(@, z)],
          touched |-> bufs.touched \cup {p}]
    ELSE [bufs EXCEPT !.frag[index] = RMin(@, z), !.touched = @ \cup {p}]

PixelBody(bufs, p, f, color) ==
    IF f[1] THEN CoveredPixel(bufs, p, p[2] * Width + p[1], f[2], color) ELSE bufs

PixelStep(bufs, p, homo_coords, screen_pos, color) ==
    PixelBody(bufs, p, Fragment(p, homo_coords, screen_pos), color)

RECURSIVE PixelLoop(_, _, _, _, _, _, _)
PixelLoop(bufs, box, n, k, homo_coords, screen_pos, color) ==
    IF k > n THEN bufs
    ELSE PixelLoop(PixelStep(bufs, PixelAt(box, box[2] - box[1] + 1, k),
                             homo_coords, screen_pos, color),
                   box, n, k + 1, homo_coords, screen_pos, color)

RasterBox(bufs, box, homo_coords, screen_pos, color) ==
    PixelLoop(bufs, box, BoxSize(box), 1, homo_coords, screen_pos, color)

RasterScreen(bufs, homo_coords, screen_pos, color) ==
    RasterBox(bufs, BoundingBox(screen_pos), homo_coords, screen_pos, color)

\* Pipeline::rasterize: the buffers after the call
rasterize(bufs, homo_coords, color) ==
    RasterScreen(bufs, homo_coords,
                 [i \in 1..3 |-> ScreenPos(homo_coords[i])], color)

(***************************************************************************)
(* The PNG decoder, PNGImage::readPNG.                                     *)
(*                                                                         *)
(* A 32-bit value is the tuple of its four bytes, most significant first;  *)
(* a field of the file is the tuple of its four bytes in file order.  On   *)
(* the little-endian host the decoder is written for, file.read leaves the *)
(* file's bytes reversed in the variable, and reverseEndian reverses them. *)
(* A file is a sequence of whole chunks: the files of the model end at a   *)
(* chunk boundary, and every chunk's length field is the size of its data. *)
(***************************************************************************)
reverseEndian(val) == <<val[4], val[3], val[2], val[1]>>

\* the value file.read stores for a four-byte field of the file
RawOf(field) == <<field[4], field[3], field[2], field[1]>>

\* enum PNGDataBlockType: the chunk type codes
IHDR == <<73, 72, 68, 82>>
IDAT == <<73, 68, 65, 84>>
IEND == <<73, 69, 78, 68>>
\* an ancillary chunk type (tEXt)
TEXT == <<116, 69, 88, 116>>

TRUE_COLOR == 2
TRUE_COLOR_ALPHA == 6

\* the retry budget of uncompress on Z_MEM_ERROR
RETRY_BUDGET == 10

Num32(val) == ((val[1] * 256 + val[2]) * 256 + val[3]) * 256 + val[4]

Be32(n) == <<0, 0, n \div 256, n % 256>>

\* crc32 over type and data: a value that certifies exactly these bytes
calCRC32(type, data) == <<type, data>>

(***************************************************************************)
(* Filters.  A scanline is <<filter byte>> \o row bytes.                   *)
(***************************************************************************)
\* byte k of row r (1-based), 0 left of the row
At(row, k) == IF k >= 1 /\ k <= Len(row) THEN row[k] ELSE 0

\* the bytes of a row, in order, as the loops of readPNG rewrite them: byte
\* k is rewritten from the bytes already rewritten to its left (cur) and
\* the finished row above (up)
RECURSIVE SubLoop(_, _, _)
SubLoop(cur, bpp, k) ==
    IF k > Len(cur) THEN cur
    ELSE SubLoop([cur EXCEPT ![k] = (cur[k] + cur[k - bpp]) % 256], bpp, k + 1)

RECURSIVE UpLoop(_, _, _)
UpLoop(cur, up, k) ==
    IF k > Len(cur) THEN cur
    ELSE UpLoop([cur EXCEPT ![k] = (cur[k] + up[k]) % 256], up, k + 1)

RECURSIVE AverageLoop(_, _, _, _)
AverageLoop(cur, up, bpp, k) ==
    IF k > Len(cur) THEN cur
    ELSE AverageLoop([cur EXCEPT ![k] = (cur[k] + (cur[k - bpp] + up[k]) \div 2) % 256],
                     up, bpp, k + 1)

\* the predictor of case 0x04: v = |a - c|, h = |b - c|, v < h ? b : a
CodePaeth(a, b, c) == IF Abs(a - c) < Abs(b - c) THEN b ELSE a

RECURSIVE PaethLoop(_, _, _, _)
PaethLoop(cur, up, bpp, k) ==
    IF k > Len(cur) THEN cur
    ELSE PaethLoop([cur EXCEPT ![k] =
                       (cur[k] + CodePaeth(cur[k - bpp], up[k], up[k - bpp])) % 256],
                   up, bpp, k + 1)

\* One iteration of the row loop on st = [ok, rows]: rows are the rows of
\* data_ written so far.  When the switch jumps to failed, the row just
\* copied stays in data_ unfiltered.
UnfilterRow(st, line, bpp, i) ==
    LET raw == Tail(line)
        up  == IF i = 0 THEN <<>> ELSE st.rows[i]
    IN  CASE line[1] = 0 -> [st EXCEPT !.rows = Append(@, raw)]
          [] line[1] = 1 -> [st EXCEPT !.rows = Append(@, SubLoop(raw, bpp, bpp + 1))]
          [] line[1] = 2 ->
                IF i = 0 THEN [ok |-> FALSE, rows |-> Append(st.rows, raw)]
                ELSE [st EXCEPT !.rows = Append(@, UpLoop(raw, up, 1))]
          [] line[1] = 3 ->
                IF i = 0 THEN [ok |-> FALSE, rows |-> Append(st.rows, raw)]
                ELSE [st EXCEPT !.rows = Append(@, AverageLoop(raw, up, bpp, bpp + 1))]
          [] line[1] = 4 ->
                IF i = 0 THEN [ok |-> FALSE, rows |-> Append(st.rows, raw)]
                ELSE [st EXCEPT !.rows = Append(@, PaethLoop(raw, up, bpp, bpp + 1))]
          [] OTHER -> [ok |-> FALSE, rows |-> Append(st.rows, raw)]

RECURSIVE UnfilterLoop(_, _, _, _)
UnfilterLoop(st, lines, bpp, i) ==
    IF i >= Len(lines) \/ ~st.ok THEN st
    ELSE UnfilterLoop(UnfilterRow(st, lines[i + 1], bpp, i), lines, bpp, i + 1)

\* the rows of data_ after the row loop, and whether it ran to the end
Unfilter(lines, bpp) == UnfilterLoop([ok |-> TRUE, rows |-> <<>>], lines, bpp, 0)

(***************************************************************************)
(* Input files.                                                            *)
(***************************************************************************)
\* an image: its IHDR fields and its rows of pixel bytes
ImageS6 ==
    [width |-> 2, height |-> 2, color_type |-> TRUE_COLOR,
     rows |-> << <<255, 0, 0, 0, 255, 0>>, <<0, 0, 255, 255, 255, 255>> >>]

ImageRGBA ==
    [width |-> 1, height |-> 3, color_type |-> TRUE_COLOR_ALPHA,
     rows |-> << <<10, 200, 30, 255>>, <<90, 20, 250, 128>>, <<100, 100, 7, 0>> >>]

ImagePalette ==
    [width |-> 2, height |-> 2, color_type |-> 3,
     rows |-> << <<1, 2>>, <<3, 4>> >>]

BppOf(color_type) == IF color_type = TRUE_COLOR THEN 3 ELSE 4

\* PaethPredictor of the PNG standard
PaethPredictor(a, b, c) ==
    LET pa == Abs(b - c)
        pb == Abs(a - c)
        pc2 == Abs(a + b - 2 * c)
    IN  IF pa <= pb /\ pa <= pc2 THEN a ELSE IF pb <= pc2 THEN b ELSE c

\* the predictor of filter type f for byte k of row cur above which lies up
Predictor(f, cur, up, bpp, k) ==
    CASE f = 0 -> 0
      [] f = 1 -> At(cur, k - bpp)
      [] f = 2 -> At(up, k)
      [] f = 3 -> (At(cur, k - bpp) + At(up, k)) \div 2
      [] f = 4 -> PaethPredictor(At(cur, k - bpp), At(up, k), At(up, k - bpp))
      [] OTHER -> 0

\* the scanline an encoder writes for row i of an image with filter f
FilterRow(rows, bpp, i, f) ==
    <<f>> \o [k \in 1..Len(rows[i]) |->
                (rows[i][k] + 256
                   - Predictor(f, rows[i], IF i = 1 THEN <<>> ELSE rows[i - 1], bpp, k)) % 256]

\* the inflated scanlines of an image for the filter types fs, one per row
Scanlines(image, fs) ==
    [i \in 1..Len(image.rows) |->
        FilterRow(image.rows, BppOf(image.color_type), i, fs[i])]

\* a chunk: type, data and whether the stored crc is that of type and data
IhdrOf(image) ==
    [width |-> Be32(image.width), height |-> Be32(image.height),
     color_type |-> image.color_type]

IhdrChunk(image, crc_ok) == [type |-> IHDR, data |-> IhdrOf(image), crc_ok |-> crc_ok]
IdatChunk(data, crc_ok)  == [type |-> IDAT, data |-> data, crc_ok |-> crc_ok]
IendChunk == [type |-> IEND, data |-> <<>>, crc_ok |-> TRUE]
TextChunk == [type |-> TEXT, data |-> <<"t">>, crc_ok |-> TRUE]

\* the length field of a chunk, in file order
LengthOf(chunk) ==
    IF chunk.type = IHDR THEN Be32(13) ELSE Be32(Len(chunk.data))

\* the crc field of a chunk
CrcOf(chunk) == IF chunk.crc_ok THEN calCRC32(chunk.type, chunk.data) ELSE <<"bad">>

\* The zlib stream of a file is cut in the pieces "z1", "z2"; inflating
\* exactly these pieces in order yields the scanlines, anything else is a
\* data error.
Pieces == <<"z1", "z2">>

FilterChoices(image) ==
    {fs \in [1..Len(image.rows) -> 0..5] :
        \A i \in 2..Len(image.rows) : i > 2 => fs[i] = fs[2]}

\* chunk sequences after the signature
WholeStreams(image) ==
    { <<IhdrChunk(image, TRUE), IdatChunk(Pieces, TRUE), IendChunk>>,
      <<IhdrChunk(image, TRUE), IdatChunk(<<"z1">>, TRUE), TextChunk,
        IdatChunk(<<"z2">>, TRUE), IendChunk>> }

BrokenStreams(image) ==
    { <<IhdrChunk(image, FALSE), IdatChunk(Pieces, TRUE), IendChunk>>,
      <<IhdrChunk(image, TRUE), IdatChunk(Pieces, FALSE), IendChunk>>,
      <<IhdrChunk(image, TRUE), IdatChunk(<<"z2">>, TRUE), IendChunk>>,
      <<IdatChunk(Pieces, TRUE), IendChunk>>,
      <<IendChunk>>,
      <<IhdrChunk(ImagePalette, TRUE), IdatChunk(Pieces, TRUE), IendChunk>> }

\* files that end before an IEND chunk
TruncatedStreams(image) ==
    { <<>>,
      <<IhdrChunk(image, TRUE)>>,
      <<IhdrChunk(image, TRUE), IdatChunk(Pieces, TRUE)>>,
      <<IhdrChunk(image, TRUE), IdatChunk(Pieces, TRUE), IdatChunk(<<>>, TRUE)>>,
      <<IhdrChunk(image, TRUE), IdatChunk(Pieces, TRUE), TextChunk>>,
      <<TextChunk>> }

NoFilter(image) == [i \in 1..Len(image.rows) |-> 0]

FileOf(open, sign_ok, chunks, lines) ==
    [open |-> open, sign_ok |-> sign_ok, chunks |-> chunks, lines |-> lines]

FilesOf(image) ==
    {FileOf(TRUE, TRUE, c, Scanlines(image, fs)) :
        c \in WholeStreams(image), fs \in FilterChoices(image)}
    \cup {FileOf(TRUE, TRUE, c, Scanlines(image, NoFilter(image))) :
            c \in BrokenStreams(image) \cup TruncatedStreams(image)}

Files ==
    FilesOf(ImageS6) \cup FilesOf(ImageRGBA)
    \cup {FileOf(FALSE, FALSE, <<>>, <<>>), FileOf(TRUE, FALSE, <<>>, <<>>)}

(***************************************************************************)
(* The model (mesh) and the shader.                                        *)
(***************************************************************************)
H2(n) == <<n, 2>>

\* clip-space positions the vertex shader produces.  Vertices 1..3 are the
\* triangle of scenario S1; 4..6 lie inside the view volume; 7..12 violate
\* one frustum plane each; 13..15 and 16..18 are the same screen triangle
\* at depth 2 and at depth 1.
ClipTable ==
    << <<H2(-1), H2(-1), R(0), R(1)>>,
       <<H2(1),  H2(-1), R(0), R(1)>>,
       <<R(0),   H2(1),  R(0), R(1)>>,
       <<H2(-1), H2(-1), R(0), R(-1)>>,
       <<H2(1),  H2(-1), R(0), R(-1)>>,
       <<R(0),   H2(1),  R(0), R(-1)>>,
       <<R(2),   R(0),   R(0), R(-1)>>,
       <<R(-2),  R(1),   R(0), R(-1)>>,
       <<R(0),   R(3),   R(0), R(-1)>>,
       <<R(1),   R(-3),  R(0), R(-1)>>,
       <<R(0),   R(0),   R(2), R(-1)>>,
       <<R(0),   R(0),   R(-3), R(-2)>>,
       <<R(-2),  R(-2),  R(0), R(-2)>>,
       <<R(2),   R(-2),  R(0), R(-2)>>,
       <<R(0),   R(2),   R(0), R(-2)>>,
       <<R(-1),  R(-1),  R(0), R(-1)>>,
       <<R(1),   R(-1),  R(0), R(-1)>>,
       <<R(0),   R(1),   R(0), R(-1)>> >>

NumVertices == Len(ClipTable)

\* model.vertices, model.normals, model.uv_coords
ModelVertices == [v \in 1..NumVertices |-> <<R(v), R(0), R(v + 1), R(1)>>]
ModelNormals  == [v \in 1..NumVertices |-> <<R(0), R(v), R(1)>>]
ModelUvs      == [v \in 1..NumVertices |-> <<R(v), H2(v)>>]

\* shader.vertexShader, a pure function of the model vertex
vertexShader(world) ==
    ClipTable[CHOOSE v \in 1..NumVertices : ModelVertices[v] = world]

\* shader.fragmentShader, a pure function of the weights, the corrector and
\* the per-triangle slots: here a flat colour from the slots of vertex 0,
\* out of [0, 255] and fractional for some triangles
fragmentShader(sh) ==
    <<RSub(RMul(R(40), sh.uvs[1][1]), R(100)),
      RMul(R(30), sh.uvs[1][2]),
      RMul(<<51, 2>>, sh.world_coords[1][3])>>

\* a face: three vertex indices (the uv and normal index equal to it)
ClipVertices == {1, 4, 5, 6, 7, 8, 9, 10, 11, 12}

AllFaces ==
    {<<a, b, c>> : a \in ClipVertices, b \in ClipVertices, c \in ClipVertices}
    \cup { <<1, 2, 3>> }

\* faces of the models of two or more faces: the deep triangle, two
\* triangles of mixed depth that cross each other, a clipped triangle
PassFaces == { <<13, 14, 15>>, <<16, 14, 18>>, <<13, 17, 15>>, <<7, 8, 9>> }

MaxFaces == 2

Models ==
    {<<f>> : f \in AllFaces}
    \cup UNION {[1..n -> PassFaces] : n \in 2..MaxFaces}

(***************************************************************************)
(* State.                                                                  *)
(***************************************************************************)
VARIABLES
    faces,       \* model.faces
    pc,          \* position of the caller and driver:
                 \* constructed, idle, face, clip, fan, done
    zbuffer, framebuffer,
    fi, fend, finterval,   \* i, end, interval of renderingTriangles
    payload,     \* sides a and b
    plane,       \* the next plane homogeneous_clip applies
    vertex_num,  \* num of homogeneous_clip, then vertex_num of the driver
    j,           \* the fan loop index
    shader,      \* the shader's per-triangle slots
    homo_coords, \* payload.homo_coords
    prev_num,    \* history: vertex count before the last clipWithPlane
    fanLog,      \* history: index triples prepared for the current face
    fragMin,     \* history: least depth of the covering fragments per pixel
    accessed,    \* history: pixels the last rasterize touched
    prevBufs,    \* history: the buffers before the last rasterize
    file,        \* the input file of readPNG
    png_pc,      \* position of readPNG: start, loop, returned, overrun
    pos,         \* the stream position: the next chunk of the file
    failbit,     \* the stream's failbit
    length, block_type, crc,      \* the locals of the chunk loop
    compressed_data, data_index,
    header_, data_,               \* the fields of the PNGImage
    result,      \* the value readPNG returned
    before       \* history: header_ and data_ at the call

pipeVars == <<faces, pc, zbuffer, framebuffer, fi, fend, finterval,
              payload, plane, vertex_num, j, shader, homo_coords, prev_num,
              fanLog, fragMin, accessed, prevBufs>>

pngVars == <<file, png_pc, pos, failbit, length, block_type, crc,
             compressed_data, data_index, header_, data_, result, before>>

vars == <<pipeVars, pngVars>>

NoSlots == [homo_coords |-> <<>>, world_coords |-> <<>>, normals |-> <<>>, uvs |-> <<>>]

\* a value-initialised PNGImage
NoHeader == [width |-> Be32(0), height |-> Be32(0), color_type |-> 0]
NoData == [alloc |-> FALSE, rows |-> <<>>, size |-> 0]

\* no decode under way
PngIdle ==
    /\ file = FileOf(FALSE, FALSE, <<>>, <<>>)
    /\ png_pc = "returned"
    /\ pos = 1
    /\ failbit = FALSE
    /\ length = Be32(0) /\ block_type = Be32(0) /\ crc = <<"none">>
    /\ compressed_data = [alloc |-> FALSE, bytes |-> <<>>]
    /\ data_index = 0
    /\ header_ = NoHeader
    /\ data_ = NoData
    /\ result = FALSE
    /\ before = [header |-> header_, data |-> data_]

\* after Pipeline(Width, Height): both buffers value-initialised
PipeInit(models) ==
    /\ faces \in models
    /\ pc = "constructed"
    /\ zbuffer = [k \in 0..(Width * Height - 1) |-> R(0)]
    /\ framebuffer = [k \in 0..(4 * Width * Height - 1) |-> 0]
    /\ fi = 0 /\ fend = 0 /\ finterval = 1
    /\ payload = [a |-> <<>>, b |-> <<>>]
    /\ plane = MINIMAL
    /\ vertex_num = 0
    /\ j = 0
    /\ shader = NoSlots
    /\ homo_coords = <<>>
    /\ prev_num = 0
    /\ fanLog = <<>>
    /\ fragMin = [k \in 0..(Width * Height - 1) |-> DepthSentinel]
    /\ accessed = {}
    /\ prevBufs = [z |-> zbuffer, fb |-> framebuffer]

Init == PipeInit(Models) /\ PngIdle

\* the caller fills the depth buffer with the sentinel before the first face
FillDepth ==
    /\ pc = "constructed"
    /\ pc' = "idle"
    /\ zbuffer' = [k \in DOMAIN zbuffer |-> DepthSentinel]
    /\ prevBufs' = [z |-> zbuffer', fb |-> framebuffer]
    /\ UNCHANGED <<pngVars, faces, framebuffer, fi, fend, finterval, payload, plane,
                   vertex_num, j, shader, homo_coords, prev_num, fanLog,
                   fragMin, accessed>>

\* entry of renderingTriangles(begin, end, interval, model, shader)
renderingTriangles(begin, end, interval) ==
    /\ pc = "idle"
    /\ pc' = "face"
    /\ fi' = begin /\ fend' = end /\ finterval' = interval
    /\ UNCHANGED <<pngVars, faces, zbuffer, framebuffer, payload, plane,
                   vertex_num, j, shader, homo_coords, prev_num, fanLog,
                   fragMin, accessed, prevBufs>>

renderingModel == renderingTriangles(0, Len(faces), 1)

\* a strided subset of the faces
RenderSubset ==
    \E interval \in 1..2 : renderingTriangles(1, Len(faces), interval)

\* the loop head and the fill of side a for face i
LoadFace ==
    /\ pc = "face" /\ fi < fend
    /\ LET vertex == faces[fi + 1]
       IN  payload' = [payload EXCEPT !.a =
               [k \in 1..3 |->
                   [coords       |-> vertexShader(ModelVertices[vertex[k]]),
                    world_coords |-> ModelVertices[vertex[k]],
                    normals      |-> ModelNormals[vertex[k]],
                    uvs          |-> ModelUvs[vertex[k]]]]]
    /\ pc' = "clip" /\ plane' = MINIMAL /\ vertex_num' = 3 /\ prev_num' = 3
    /\ fanLog' = <<>>
    /\ UNCHANGED <<pngVars, faces, zbuffer, framebuffer, fi, fend, finterval,
                   j, shader, homo_coords, fragMin, accessed, prevBufs>>

\* one clipWithPlane call of homogeneous_clip
ClipStep ==
    /\ pc = "clip"
    /\ payload' = clipWithPlane(plane, vertex_num, payload)
    /\ vertex_num' = Len(clipOut(plane, payload'))
    /\ prev_num' = vertex_num
    /\ IF plane = FAR
       THEN pc' = "fan" /\ j' = 1 /\ plane' = plane
       ELSE pc' = "clip" /\ j' = j /\ plane' = plane + 1
    /\ UNCHANGED <<pngVars, faces, zbuffer, framebuffer, fi, fend, finterval,
                   shader, homo_coords, fanLog, fragMin, accessed, prevBufs>>

\* prepareVertex(tri_index, payload, shader): the new slots, read from side b
prepareVertex(tri_index, pl) ==
    [homo_coords  |-> [k \in 1..3 |-> pl.b[tri_index[k] + 1].coords],
     world_coords |-> [k \in 1..3 |-> pl.b[tri_index[k] + 1].world_coords],
     normals      |-> [k \in 1..3 |-> pl.b[tri_index[k] + 1].normals],
     uvs          |-> [k \in 1..3 |-> pl.b[tri_index[k] + 1].uvs]]

\* mutant: the loop stops one triangle early
FanGuardShort == j < vertex_num - 2

\* the condition of the fan loop
FanGuard == j < vertex_num - 1

\* one iteration of the fan loop: prepareVertex, then rasterize
FanStep ==
    /\ pc = "fan" /\ FanGuard
    /\ \E sh \in {prepareVertex(<<0, j, j + 1>>, payload)} :
         \E bufs \in {rasterize([z |-> zbuffer, fb |-> framebuffer,
                                 frag |-> fragMin, touched |-> {}],
                                sh.homo_coords, fragmentShader(sh))} :
           /\ shader' = sh
           /\ homo_coords' = sh.homo_coords
           /\ zbuffer' = bufs.z
           /\ framebuffer' = bufs.fb
           /\ fragMin' = bufs.frag
           /\ accessed' = bufs.touched
    /\ fanLog' = Append(fanLog, <<0, j, j + 1>>)
    /\ prevBufs' = [z |-> zbuffer, fb |-> framebuffer]
    /\ j' = j + 1
    /\ UNCHANGED <<pngVars, faces, pc, fi, fend, finterval, payload, plane,
                   vertex_num, prev_num>>

\* the fan loop ends: i += interval
FanDone ==
    /\ pc = "fan" /\ ~FanGuard
    /\ pc' = "face"
    /\ fi' = fi + finterval
    /\ UNCHANGED <<pngVars, faces, zbuffer, framebuffer, fend, finterval,
                   payload, plane, vertex_num, j, shader, homo_coords, prev_num,
                   fanLog, fragMin, accessed, prevBufs>>

\* renderingTriangles returns
Return ==
    /\ pc = "face" /\ ~(fi < fend)
    /\ pc' = "done"
    /\ UNCHANGED <<pngVars, faces, zbuffer, framebuffer, fi, fend, finterval,
                   payload, plane, vertex_num, j, shader, homo_coords, prev_num,
                   fanLog, fragMin, accessed, prevBufs>>

Next ==
    \/ FillDepth
    \/ renderingModel
    \/ RenderSubset
    \/ LoadFace
    \/ ClipStep
    \/ FanStep
    \/ FanDone
    \/ Return

Spec == Init /\ [][Next]_vars

(***************************************************************************)
(* readPNG as a state machine: one action per pass of the chunk loop.      *)
(***************************************************************************)
\* a PNGImage that holds an image decoded earlier
HeldHeader == [width |-> Be32(1), height |-> Be32(1), color_type |-> TRUE_COLOR]
HeldData == [alloc |-> TRUE, rows |-> << <<7, 8, 9>> >>, size |-> 3]

\* values the uninitialised locals length and block_type can hold
Indeterminate ==
    { [length |-> Be32(0), block_type |-> RawOf(TEXT)],
      [length |-> Be32(0), block_type |-> RawOf(IEND)],
      [length |-> Be32(0), block_type |-> RawOf(IDAT)] }

InitPNG ==
    /\ PipeInit({<<>>})
    /\ file \in Files
    /\ png_pc = "start"
    /\ pos = 1
    /\ failbit = FALSE
    /\ length = Be32(0) /\ block_type = Be32(0) /\ crc = <<"none">>
    /\ compressed_data = [alloc |-> FALSE, bytes |-> <<>>]
    /\ data_index = 0
    /\ \/ header_ = NoHeader /\ data_ = NoData
       \/ header_ = HeldHeader /\ data_ = HeldData
    /\ result = FALSE
    /\ before = [header |-> header_, data |-> data_]

\* the label failed
Failed ==
    /\ png_pc' = "returned"
    /\ result' = FALSE

\* the file does not open or the signature differs
BadSignature ==
    /\ png_pc = "start"
    /\ ~file.open \/ ~file.sign_ok
    /\ Failed
    /\ failbit' = ~file.open
    /\ UNCHANGED <<pipeVars, file, pos, length, block_type, crc,
                   compressed_data, data_index, header_, data_, before>>

\* the signature matches; the locals of the loop are declared
Signature ==
    /\ png_pc = "start"
    /\ file.open /\ file.sign_ok
    /\ png_pc' = "loop"
    /\ \E u \in Indeterminate :
          length' = u.length /\ block_type' = u.block_type
    /\ UNCHANGED <<pipeVars, file, pos, failbit, crc, compressed_data,
                   data_index, header_, data_, result, before>>

\* file.read stores a field of the next chunk, unless the stream has failed
\* or ended: then it stores nothing
CanRead == ~failbit /\ pos <= Len(file.chunks)

\* length and block_type after the two reads and reverseEndian calls at the
\* head of the loop
HeadLength ==
    reverseEndian(IF CanRead THEN RawOf(LengthOf(file.chunks[pos])) ELSE length)

HeadType ==
    reverseEndian(IF CanRead THEN RawOf(file.chunks[pos].type) ELSE block_type)

LoopHead ==
    /\ png_pc = "loop"
    /\ length' = HeadLength
    /\ block_type' = HeadType
    /\ failbit' = ~CanRead

\* the bytes of header_ in memory, as calCRC32 reads them
MemBytes(h) ==
    [width |-> reverseEndian(h.width), height |-> reverseEndian(h.height),
     color_type |-> h.color_type]

\* header_ after file.read((char*)&header_, length)
HeaderRead ==
    IF CanRead /\ file.chunks[pos].type = IHDR
    THEN [width |-> RawOf(file.chunks[pos].data.width),
          height |-> RawOf(file.chunks[pos].data.height),
          color_type |-> file.chunks[pos].data.color_type]
    ELSE header_

\* crc after file.read((char*)&crc, 4)
CrcRead == IF CanRead THEN CrcOf(file.chunks[pos]) ELSE crc

\* the branch IHDR, h the header just read
ChunkIHDRBody(h) ==
    /\ crc' = CrcRead
    /\ pos' = IF CanRead THEN pos + 1 ELSE pos
    /\ IF crc' # calCRC32(IHDR, MemBytes(h))
          \/ h.color_type \notin {TRUE_COLOR, TRUE_COLOR_ALPHA}
       THEN /\ Failed
            /\ header_' = h
            /\ UNCHANGED compressed_data
       ELSE /\ header_' = [h EXCEPT !.width = reverseEndian(h.width),
                                    !.height = reverseEndian(h.height)]
            /\ compressed_data' =
                  [alloc |-> TRUE, bytes |-> [k \in 1..data_index |-> "?"]]
            /\ UNCHANGED <<png_pc, result>>

ChunkIHDR ==
    /\ LoopHead
    /\ HeadType = IHDR
    /\ ChunkIHDRBody(HeaderRead)
    /\ UNCHANGED <<pipeVars, file, data_index, data_, before>>

\* contents buf can have after file.read(buf, length): the chunk's data, or
\* after a failed read whatever the new array held
BufRead ==
    IF CanRead THEN {file.chunks[pos].data}
    ELSE {[k \in 1..Num32(HeadLength) |-> "?"]}
         \cup (IF Len(crc) = 2 THEN {d \in {crc[2]} : Len(d) = Num32(HeadLength)}
               ELSE {})

\* the size of the array IHDR allocates for compressed_data
Capacity == (Num32(header_.width) * 4 + 1) * Num32(header_.height)

\* the branch IDAT; a memcpy past the end of compressed_data ends the run
ChunkIDAT ==
    /\ LoopHead
    /\ HeadType = IDAT
    /\ IF ~compressed_data.alloc
       THEN /\ Failed
            /\ UNCHANGED <<pos, crc, compressed_data, data_index>>
       ELSE /\ crc' = CrcRead
            /\ pos' = IF CanRead THEN pos + 1 ELSE pos
            /\ \E buf \in BufRead :
                 IF crc' # calCRC32(IDAT, buf)
                 THEN /\ Failed
                      /\ UNCHANGED <<compressed_data, data_index>>
                 ELSE /\ compressed_data' =
                            [compressed_data EXCEPT !.bytes = @ \o buf]
                      /\ data_index' = data_index + Len(buf)
                      /\ png_pc' = IF data_index' > Capacity
                                   THEN "overrun" ELSE png_pc
                      /\ UNCHANGED result
    /\ UNCHANGED <<pipeVars, file, header_, data_, before>>

\* any other chunk: seekg(length + 4, cur)
ChunkOther ==
    /\ LoopHead
    /\ HeadType \notin {IEND, IHDR, IDAT}
    /\ pos' = IF CanRead THEN pos + 1 ELSE pos
    /\ UNCHANGED <<pipeVars, file, png_pc, crc, compressed_data, data_index,
                   header_, data_, result, before>>

\* the number of bytes of the scanlines
SizeOf(lines) == IF lines = <<>> THEN 0 ELSE Len(lines) * Len(lines[1])

\* uncompress(filtered_data, &len, compressed_data, data_index) when memory
\* suffices
uncompress(len) ==
    IF compressed_data.alloc /\ compressed_data.bytes = Pieces
       /\ SizeOf(file.lines) = len
    THEN "Z_OK" ELSE "Z_DATA_ERROR"

\* how many times in a row uncompress can report Z_MEM_ERROR
MemErrors == {0, 1, RETRY_BUDGET}

\* the branch IEND after uncompress returned Z_OK: data_ is replaced, then
\* the rows are unfiltered
Decode(bpp, data_width, data_height) ==
    \E st \in {Unfilter(file.lines, bpp)} :
       /\ data_' = [alloc |-> TRUE, rows |-> st.rows,
                    size |-> data_width * data_height]
       /\ png_pc' = "returned"
       /\ result' = st.ok

ChunkIENDBody(bpp, data_width, data_height) ==
    \E m \in MemErrors :
       IF m >= RETRY_BUDGET \/ uncompress((data_width + 1) * data_height) # "Z_OK"
       THEN Failed /\ UNCHANGED data_
       ELSE Decode(bpp, data_width, data_height)

\* the branch IEND
ChunkIEND ==
    /\ LoopHead
    /\ HeadType = IEND
    /\ ChunkIENDBody(BppOf(header_.color_type),
                     Num32(header_.width) * BppOf(header_.color_type),
                     Num32(header_.height))
    /\ UNCHANGED <<pipeVars, file, pos, crc, compressed_data, data_index,
                   header_, before>>

NextPNG ==
    \/ BadSignature
    \/ Signature
    \/ ChunkIHDR
    \/ ChunkIDAT
    \/ ChunkOther
    \/ ChunkIEND

SpecPNG == InitPNG /\ [][NextPNG]_vars

\* the loop of readPNG keeps running
FairSpecPNG == InitPNG /\ [][NextPNG]_vars /\ WF_vars(NextPNG)

(***************************************************************************)
(* Properties of the pipeline.                                             *)
(***************************************************************************)
\* the inside tests of the seven planes on clip-space position v
InsideTests(v) ==
    <<RLe(W(v), RNeg(MINIMAL_VAL)),
      RLe(W(v), X(v)), RLe(X(v), RNeg(W(v))),
      RLe(W(v), Y(v)), RLe(Y(v), RNeg(W(v))),
      RLe(W(v), Z(v)), RLe(Z(v), RNeg(W(v)))>>

\* the side the last clipWithPlane wrote
CurrentSide == IF pc = "fan" THEN payload.b ELSE clipOut(plane - 1, payload)

\* C1: Containment.  After the k-th clipWithPlane every vertex of the side
\* it wrote satisfies the inside tests of the first k planes; after the
\* seventh, every vertex of side b (indices 0..n-1) satisfies all seven.
Containment ==
    /\ pc = "clip" /\ plane > MINIMAL =>
          \A k \in 1..vertex_num : \A pl \in 1..plane :
              InsideTests(CurrentSide[k].coords)[pl]
    /\ pc = "fan" =>
          \A k \in 1..vertex_num : \A pl \in 1..7 :
              InsideTests(payload.b[k].coords)[pl]

\* the vertex the driver loads for model vertex v
InputVertex(v) ==
    [coords       |-> ClipTable[v],
     world_coords |-> ModelVertices[v],
     normals      |-> ModelNormals[v],
     uvs          |-> ModelUvs[v]]

\* a polygon of side b holds a vertex the clipper created
ContainmentWitness ==
    /\ pc = "fan" /\ vertex_num >= 5
    /\ \E k \in 1..vertex_num :
          \A v \in 1..NumVertices : payload.b[k] # InputVertex(v)

\* C2: Clipper cardinality bound.  The count homogeneous_clip returns is 0
\* or in 3..10; each clipWithPlane raises the count by at most 1; no side
\* ever holds more than PAYLOAD_CAPACITY entries.
ClipCardinality ==
    /\ pc \in {"clip", "fan"} =>
          /\ vertex_num <= prev_num + 1
          /\ Len(payload.a) <= PAYLOAD_CAPACITY
          /\ Len(payload.b) <= PAYLOAD_CAPACITY
    /\ pc = "fan" => vertex_num = 0 \/ vertex_num \in 3..10

\* a clipWithPlane call that raised the count, on a polygon of 5 or more
ClipCardinalityWitness ==
    pc \in {"clip", "fan"} /\ vertex_num = prev_num + 1 /\ vertex_num >= 6

\* the face being clipped or fanned
CurrentFace == faces[fi + 1]

S1Input == <<InputVertex(1), InputVertex(2), InputVertex(3)>>

\* the triangle of S1 with w = -1, as side b holds it after seven planes:
\* each clipWithPlane appends vertex (i + 1) % n at step i, so it rotates an
\* untouched polygon by one place, and seven planes rotate a triangle by one
S1NegativeRotated == <<InputVertex(5), InputVertex(6), InputVertex(4)>>

\* C3 as stated: for the triangle of S1, homogeneous_clip returns 3 and side
\* b holds the three input vertices.
S1Original ==
    pc = "fan" /\ CurrentFace = <<1, 2, 3>> =>
        vertex_num = 3 /\ payload.b = S1Input

\* C3 amended: the triangle of S1 (w = 1) fails the MINIMAL test at every
\* vertex and homogeneous_clip returns 0; the same triangle with w = -1
\* comes back whole: count 3, the three input vertices with their
\* attributes, in the cyclic order (v1, v2, v0).
S1Amended ==
    /\ pc = "fan" /\ CurrentFace = <<1, 2, 3>> => vertex_num = 0
    /\ pc = "fan" /\ CurrentFace = <<4, 5, 6>> =>
          vertex_num = 3 /\ payload.b = S1NegativeRotated

S1Witness == pc = "fan" /\ CurrentFace = <<4, 5, 6>> /\ vertex_num = 3

\* the depth index of pixel p and the pixels the last rasterize wrote
DepthIndex(p) == p[2] * Width + p[1]

Written == {p \in accessed : zbuffer[DepthIndex(p)] # prevBufs.z[DepthIndex(p)]}

\* C4: Pixel write monotonicity.  Once the depth buffer is pre-filled with
\* the sentinel, the stored depth of every pixel is the least z = -corrector
\* of the fragments that passed the coverage test there (the sentinel if
\* none did), and no rasterize call raises a stored depth.
DepthMonotone ==
    pc # "constructed" =>
        \A k \in DOMAIN zbuffer :
            zbuffer[k] = fragMin[k] /\ RLe(zbuffer[k], prevBufs.z[k])

\* a fragment replaced the depth an earlier fragment had stored, and
\* another pixel kept its depth against a covering fragment
DepthWitness ==
    /\ \E p \in accessed :
          /\ prevBufs.z[DepthIndex(p)] # DepthSentinel
          /\ RLt(zbuffer[DepthIndex(p)], prevBufs.z[DepthIndex(p)])
    /\ \E p \in accessed : zbuffer[DepthIndex(p)] = prevBufs.z[DepthIndex(p)]

\* the colour setColor receives in the last rasterize
LastColor == [c \in 1..3 |-> ClampColor(fragmentShader(shader)[c])]

FloorOf(c) == CHOOSE n \in 0..255 : RLe(R(n), c) /\ RLt(c, R(n + 1))

\* C5: Framebuffer layout.  For every pixel (x, y) the last rasterize wrote,
\* bytes ((H-y-1)*W + x)*4 + 0, 1, 2 hold B, G, R; every other byte of the
\* framebuffer is as before the call, and the depth buffer is unchanged
\* away from the written pixels.
FramebufferLayout ==
    /\ \A p \in Written :
          /\ 0 <= p[1] /\ p[1] < Width /\ 0 <= p[2] /\ p[2] < Height
          /\ framebuffer[((Height - p[2] - 1) * Width + p[1]) * 4]     = FloorOf(LastColor[3])
          /\ framebuffer[((Height - p[2] - 1) * Width + p[1]) * 4 + 1] = FloorOf(LastColor[2])
          /\ framebuffer[((Height - p[2] - 1) * Width + p[1]) * 4 + 2] = FloorOf(LastColor[1])
    /\ \A k \in DOMAIN framebuffer :
          (\A p \in Written :
              k \notin {((Height - p[2] - 1) * Width + p[1]) * 4 + d : d \in 0..2})
          => framebuffer[k] = prevBufs.fb[k]
    /\ \A k \in DOMAIN zbuffer :
          (\A p \in Written : k # DepthIndex(p)) => zbuffer[k] = prevBufs.z[k]

\* a rasterize call wrote a pixel off the vertical axis of symmetry with
\* three different bytes
LayoutWitness ==
    \E p \in Written :
        /\ 2 * p[2] # Height - 1
        /\ FloorOf(LastColor[1]) # FloorOf(LastColor[3])
        /\ FloorOf(LastColor[1]) # FloorOf(LastColor[2])

\* the index triples (0, k, k+1), k = 1..m
FanTriples(m) == [k \in 1..m |-> <<0, k, k + 1>>]

\* C9 as stated: the fan of a polygon of n vertices is (0, j, j+1) for
\* j = 1..n-1.
FanOriginal ==
    pc \in {"face", "done"} => fanLog = FanTriples(vertex_num - 1)

\* C9 amended: the fan of a polygon of n vertices is (0, j, j+1) for
\* j = 1..n-2 in increasing j, each prepared from side b, and no other
\* triple: none at all when n < 3.
FanAmended ==
    /\ pc \in {"face", "done"} => fanLog = FanTriples(vertex_num - 2)
    /\ pc = "fan" =>
          /\ fanLog = FanTriples(j - 1)
          /\ j > 1 =>
                /\ \A k \in 1..3 :
                      /\ shader.homo_coords[k]  = payload.b[fanLog[j - 1][k] + 1].coords
                      /\ shader.world_coords[k] = payload.b[fanLog[j - 1][k] + 1].world_coords
                      /\ shader.normals[k]      = payload.b[fanLog[j - 1][k] + 1].normals
                      /\ shader.uvs[k]          = payload.b[fanLog[j - 1][k] + 1].uvs
                /\ homo_coords = shader.homo_coords

FanWitness == pc = "face" /\ vertex_num >= 5 /\ Len(fanLog) = vertex_num - 2

\* C10: In-bounds pixel access.  Every pixel at which rasterize reads or
\* writes the depth buffer or calls setColor lies in [0, W) x [0, H): its
\* depth index lies in [0, W*H) and its framebuffer bytes in [0, 4*W*H).
InBounds ==
    \A p \in accessed :
        /\ 0 <= p[1] /\ p[1] < Width
        /\ 0 <= p[2] /\ p[2] < Height
        /\ p[2] * Width + p[1] \in 0..(Width * Height - 1)
        /\ ((Height - p[2] - 1) * Width + p[1]) * 4 >= 0
        /\ ((Height - p[2] - 1) * Width + p[1]) * 4 + 2 < 4 * Width * Height

\* a sub-triangle of a clipped polygon covered pixels of the first column
\* and of the last column but one (the centre of a pixel of the last column
\* lies right of every screen position, which is at most Width - 1)
InBoundsWitness ==
    /\ pc = "fan" /\ vertex_num > 3
    /\ \E p \in accessed : p[1] = 0
    /\ \E p \in accessed : p[1] = Width - 2


(***************************************************************************)
(* Claims about readPNG.                                                   *)
(***************************************************************************)
\* the file has a valid signature and no IEND chunk
Truncated ==
    /\ file.open /\ file.sign_ok
    /\ \A k \in 1..Len(file.chunks) : file.chunks[k].type # IEND

\* C6: a file with a valid signature that ends before an IEND chunk makes
\* readPNG return, and return false
TruncatedFails ==
    (png_pc = "loop" /\ Truncated) ~> (png_pc = "returned" /\ ~result)

\* the reconstruction of the PNG standard: byte k of a row from the
\* reconstructed bytes to its left and the reconstructed row above
RECURSIVE ReconLoop(_, _, _, _, _)
ReconLoop(f, cur, up, bpp, k) ==
    IF k > Len(cur) THEN cur
    ELSE ReconLoop(f, [cur EXCEPT ![k] = (cur[k] + Predictor(f, cur, up, bpp, k)) % 256],
                   up, bpp, k + 1)

RECURSIVE ReconRows(_, _, _)
ReconRows(lines, bpp, n) ==
    IF n = 0 THEN <<>>
    ELSE LET above == ReconRows(lines, bpp, n - 1)
         IN  Append(above,
                    ReconLoop(lines[n][1], Tail(lines[n]),
                              IF n = 1 THEN <<>> ELSE above[n - 1], bpp, 1))

\* readPNG replaced data_ in this call
Decoded == png_pc = "returned" /\ data_ # before.data

\* the filter byte of scanline i is one the claim covers
CoveredFilter(i) ==
    /\ file.lines[i][1] \in 0..4
    /\ i = 1 => file.lines[i][1] \in {0, 1}

\* C7: every row readPNG stores for a scanline with filter byte 0..4 (2, 3
\* and 4 after the first row only) equals the reconstruction of the PNG
\* standard in every byte
UnfilterStandard ==
    Decoded =>
       \A i \in 1..Len(data_.rows) :
          (\A n \in 1..i : CoveredFilter(n)) =>
             data_.rows[i] =
                ReconRows(file.lines, BppOf(header_.color_type), i)[i]

\* C8: when readPNG returns false, header_ and data_ are as they were at
\* the call
FailureKeepsState ==
    (png_pc = "returned" /\ ~result) =>
       (header_ = before.header /\ data_ = before.data)

====
